---- MODULE Spec2Model ----
(***************************************************************************)
(* Model of the two article-collection pipelines                           *)
(*   src/data/GDELT_API_dataset_generator.py                               *)
(*   src/data/newsAPI_dataset_generator.py                                 *)
(* fetch -> accumulate -> clean_and_merge -> to_csv, with the paginated    *)
(* NewsAPI fetch modelled one HTTP request per step.                       *)
(*                                                                         *)
(* Strings are sequences of one-character strings, so that str.strip(),    *)
(* astype(str) and the CSV round trip are computed and not assumed.        *)
(* A DataFrame is [cols, rows]: cols says whether it has any column at all *)
(* (pd.DataFrame() and pd.DataFrame([]) have none), rows are records with  *)
(* the fields the code reads or rewrites: url, title, content, query.      *)
(* Not modelled: the sleeps, os.makedirs, ensure_nltk, preprocess_text and  *)
(* _require_api_key, which run before the first step or change no state.   *)
(***************************************************************************)
EXTENDS Integers, Sequences, FiniteSets, TLC

VARIABLES
    provider,   \* which script runs: "gdelt" or "newsapi"
    file,       \* the stored dataset file (OUTPUT_CSV / OUT_FILE)
    file0,      \* the file as it was before the run
    existing,   \* main: existing = load_existing(...)
    pc,         \* position in main
    qi,         \* main: index of the query the for loop is at
    all_new,    \* main: all_new (GDELT) / frames (NewsAPI)
    new_data,   \* main: new_data = pd.concat(...)
    combined,   \* main: combined = clean_and_merge(existing, new_data)
    error,      \* the exception that was raised last, "none" if none
    failed,     \* the queries whose fetch raised
    query,      \* fetch_newsapi_articles: query
    max_pages,  \* fetch_newsapi_articles: max_pages
    page,       \* fetch_newsapi_articles: the loop variable
    all_rows,   \* fetch_newsapi_articles: all_rows
    fpc,        \* fetch_newsapi_articles: "idle", "loop", "returned", "raised"
    reqlog      \* the requests.get calls of the current fetch, in order

vars == <<provider, file, file0, existing, pc, qi, all_new, new_data, combined,
          error, failed, query, max_pages, page, all_rows, fpc, reqlog>>

mainVars  == <<provider, file, file0, existing, pc, qi, all_new, new_data, combined, failed>>
fetchVars == <<query, max_pages, page, all_rows, fpc, reqlog>>

(***************************************************************************)
(* Bounds                                                                  *)
(***************************************************************************)
NumQueries   == 2   \* length of the modelled DEFAULT_QUERIES (12 in the source)
MainMaxPages == 2   \* the max_pages main passes (5 in the source)
MaxPages     == 3   \* largest max_pages of a stand-alone fetch
MaxArticles  == 1   \* most articles in one provider response
MaxFileRows  == 1   \* most rows in the stored file before the run
MaxExisting  == 2   \* most rows of `existing` given to clean_and_merge alone
MaxNew       == 2   \* most rows of the new frame given to clean_and_merge alone

(***************************************************************************)
(* Values                                                                  *)
(***************************************************************************)
NA == <<"NaN">>                 \* a missing value (None / NaN)
Whitespace == {" "}

QueryLetters == <<"p", "q", "r", "s", "t">>
DEFAULT_QUERIES == [i \in 1..NumQueries |-> <<QueryLetters[i]>>]

UrlValues   == {NA, <<"a">>, <<" ", "a">>}
TitleValues == {NA, <<>>, <<"x">>, <<"y">>}

\* rows given to clean_and_merge when it is checked alone
MergeRecords(tag) == [url : UrlValues, title : TitleValues, content : {NA}, query : {tag}]

\* article objects a provider may return
FeedArticles == [url : {<<"a">>, <<" ", "a">>}, title : {NA, <<"x">>}, content : {NA}]

\* rows of the CSV file before the run (cell texts)
FileRows == [url : {<<"a">>, <<" ", "a">>}, title : {<<>>, <<"x">>},
             content : {<<>>, <<"c">>}, query : {<<"o">>}]

SeqsUpTo(S, n) == UNION {[1..k -> S] : k \in 0..n}

(***************************************************************************)
(* Strings                                                                 *)
(***************************************************************************)
RECURSIVE LStrip(_)
LStrip(s) == IF s # <<>> /\ Head(s) \in Whitespace THEN LStrip(Tail(s)) ELSE s

RECURSIVE RStrip(_)
RStrip(s) == IF s # <<>> /\ s[Len(s)] \in Whitespace
             THEN RStrip(SubSeq(s, 1, Len(s) - 1)) ELSE s

Strip(s) == RStrip(LStrip(s))

\* Series.astype(str): a missing value becomes the text "nan"
AsStr(v) == IF v = NA THEN <<"n", "a", "n">> ELSE v

(***************************************************************************)
(* DataFrames                                                              *)
(***************************************************************************)
EmptyFrame == [cols |-> FALSE, rows |-> <<>>]

DataFrame(rows) == [cols |-> rows # <<>>, rows |-> rows]

RECURSIVE ConcatRows(_)
ConcatRows(frames) ==
    IF frames = <<>> THEN <<>> ELSE Head(frames).rows \o ConcatRows(Tail(frames))

concat(frames) ==
    [cols |-> \E i \in 1..Len(frames) : frames[i].cols, rows |-> ConcatRows(frames)]

HasUrl(r) == r.url # NA
HasTitle(r) == r.title # NA

dropna_url(rows) == SelectSeq(rows, HasUrl)
dropna_title(rows) == SelectSeq(rows, HasTitle)

RECURSIVE DropDupFrom(_, _)
DropDupFrom(rows, seen) ==
    IF rows = <<>> THEN <<>>
    ELSE IF Head(rows).url \in seen THEN DropDupFrom(Tail(rows), seen)
    ELSE <<Head(rows)>> \o DropDupFrom(Tail(rows), seen \cup {Head(rows).url})

drop_duplicates(rows) == DropDupFrom(rows, {})

\* combined["content"].fillna("")
FillContent(r) == [r EXCEPT !.content = IF r.content = NA THEN <<>> ELSE r.content]
FillRows(rows) == [i \in 1..Len(rows) |-> FillContent(rows[i])]

\* combined[col].astype(str).str.strip() for each text column
StripRow(r) == [url |-> Strip(AsStr(r.url)), title |-> Strip(AsStr(r.title)),
                content |-> Strip(AsStr(r.content)), query |-> Strip(AsStr(r.query))]
StripRows(rows) == [i \in 1..Len(rows) |-> StripRow(rows[i])]

clean_and_merge_gdelt(ex, new) ==
    LET c == concat(<<ex, new>>) IN
    IF ~c.cols THEN c
    ELSE [cols |-> TRUE,
          rows |-> FillRows(dropna_title(dropna_url(drop_duplicates(c.rows))))]

\* combined.dropna(subset=["url", "title"]) raises KeyError on a frame without columns
merge_newsapi_raises(ex, new) == ~concat(<<ex, new>>).cols

clean_and_merge_newsapi(ex, new) ==
    LET c == concat(<<ex, new>>) IN
    [cols |-> c.cols,
     rows |-> StripRows(drop_duplicates(dropna_title(dropna_url(c.rows))))]

clean_and_merge(p, ex, new) ==
    IF p = "gdelt" THEN clean_and_merge_gdelt(ex, new) ELSE clean_and_merge_newsapi(ex, new)

(***************************************************************************)
(* CSV                                                                     *)
(***************************************************************************)
NaTexts == {<<>>, <<"n", "a", "n">>}   \* cell texts pd.read_csv reads as missing

ToCsvCell(v) == IF v = NA THEN <<>> ELSE v
ReadCsvCell(t) == IF t \in NaTexts THEN NA ELSE t

ToCsvRow(r) == [url |-> ToCsvCell(r.url), title |-> ToCsvCell(r.title),
                content |-> ToCsvCell(r.content), query |-> ToCsvCell(r.query)]
ReadCsvRow(r) == [url |-> ReadCsvCell(r.url), title |-> ReadCsvCell(r.title),
                  content |-> ReadCsvCell(r.content), query |-> ReadCsvCell(r.query)]

AbsentFile == [kind |-> "absent", rows |-> <<>>]
UnparseableFile == [kind |-> "unparseable", rows |-> <<>>]

to_csv(df) == IF df.cols THEN [kind |-> "table", rows |-> [i \in 1..Len(df.rows) |-> ToCsvRow(df.rows[i])]]
              ELSE UnparseableFile

read_csv(f) == [cols |-> TRUE, rows |-> [i \in 1..Len(f.rows) |-> ReadCsvRow(f.rows[i])]]

(***************************************************************************)
(* load_existing                                                           *)
(***************************************************************************)
\* GDELT: pd.read_csv is not guarded, so a file that does not parse raises
load_existing_gdelt_raises(f) == f.kind = "unparseable"

load_existing_gdelt(f) == IF f.kind = "absent" THEN EmptyFrame ELSE read_csv(f)

\* NewsAPI: try / except Exception around pd.read_csv
load_existing_newsapi(f) == IF f.kind = "table" THEN read_csv(f) ELSE EmptyFrame

(***************************************************************************)
(* fetch_newsapi_articles, one iteration of `for page in range(1,          *)
(* max_pages + 1)` per step                                                *)
(***************************************************************************)
NewsApiRow(a, q) == [url |-> a.url, title |-> a.title, content |-> a.content, query |-> q]

Logged(p, k, n) == [page |-> p, kind |-> k, got |-> n]

HasNextPage_Inclusive == page <= max_pages + 1

HasNextPage == page <= max_pages

\* resp.status_code == 429: sleep, continue
F_RateLimited ==
    /\ fpc = "loop" /\ HasNextPage
    /\ reqlog' = Append(reqlog, Logged(page, "429", 0))
    /\ page' = page + 1
    /\ UNCHANGED <<query, max_pages, all_rows, fpc, error>>

\* resp.raise_for_status() raises requests.HTTPError
F_HTTPError ==
    /\ fpc = "loop" /\ HasNextPage
    /\ reqlog' = Append(reqlog, Logged(page, "error", 0))
    /\ fpc' = "raised"
    /\ error' = "HTTPError"
    /\ UNCHANGED <<query, max_pages, page, all_rows>>

\* resp.json() raises on a body that is not JSON
F_BadBody ==
    /\ fpc = "loop" /\ HasNextPage
    /\ reqlog' = Append(reqlog, Logged(page, "badbody", 0))
    /\ fpc' = "raised"
    /\ error' = "ValueError"
    /\ UNCHANGED <<query, max_pages, page, all_rows>>

F_EmptyPage_NoBreak ==
    /\ fpc = "loop" /\ HasNextPage
    /\ reqlog' = Append(reqlog, Logged(page, "empty", 0))
    /\ page' = page + 1
    /\ UNCHANGED <<query, max_pages, all_rows, fpc, error>>

\* `if not articles: break`, then return pd.DataFrame(all_rows)
F_EmptyPage ==
    /\ fpc = "loop" /\ HasNextPage
    /\ reqlog' = Append(reqlog, Logged(page, "empty", 0))
    /\ fpc' = "returned"
    /\ UNCHANGED <<query, max_pages, page, all_rows, error>>

\* a page with articles: one row per article, sleep, next page
F_Articles ==
    /\ fpc = "loop" /\ HasNextPage
    /\ \E arts \in SeqsUpTo(FeedArticles, MaxArticles) :
         /\ arts # <<>>
         /\ all_rows' = all_rows \o [i \in 1..Len(arts) |-> NewsApiRow(arts[i], query)]
         /\ reqlog' = Append(reqlog, Logged(page, "articles", Len(arts)))
    /\ page' = page + 1
    /\ UNCHANGED <<query, max_pages, fpc, error>>

\* the range is exhausted: return pd.DataFrame(all_rows)
F_Return ==
    /\ fpc = "loop" /\ ~HasNextPage
    /\ fpc' = "returned"
    /\ UNCHANGED <<query, max_pages, page, all_rows, reqlog, error>>

FetchStep ==
    \/ F_RateLimited
    \/ F_HTTPError
    \/ F_BadBody
    \/ F_EmptyPage
    \/ F_Articles
    \/ F_Return

FetchNext == FetchStep /\ UNCHANGED mainVars

(***************************************************************************)
(* main                                                                    *)
(***************************************************************************)
\* existing = load_existing(path)
Load ==
    /\ pc = "load"
    /\ IF provider = "gdelt"
       THEN IF load_existing_gdelt_raises(file)
            THEN /\ pc' = "aborted"
                 /\ error' = "ParserError"
                 /\ UNCHANGED existing
            ELSE /\ existing' = load_existing_gdelt(file)
                 /\ pc' = "queries"
                 /\ UNCHANGED error
       ELSE /\ existing' = load_existing_newsapi(file)
            /\ pc' = "queries"
            /\ UNCHANGED error
    /\ UNCHANGED <<provider, file, file0, qi, all_new, new_data, combined, failed>>
    /\ UNCHANGED fetchVars

GdeltFrame(arts, q) == DataFrame([i \in 1..Len(arts) |-> NewsApiRow(arts[i], q)])

\* GDELT, one pass of `for q in queries`: r.raise_for_status() raises
G_HTTPError ==
    /\ pc = "queries" /\ provider = "gdelt" /\ qi <= NumQueries
    /\ failed' = failed \cup {qi}
    /\ error' = "HTTPError"
    /\ qi' = qi + 1
    /\ UNCHANGED <<provider, file, file0, existing, pc, all_new, new_data, combined>>
    /\ UNCHANGED fetchVars

\* GDELT: r.json() raises, caught by `except Exception`
G_BadBody ==
    /\ pc = "queries" /\ provider = "gdelt" /\ qi <= NumQueries
    /\ failed' = failed \cup {qi}
    /\ error' = "ValueError"
    /\ qi' = qi + 1
    /\ UNCHANGED <<provider, file, file0, existing, pc, all_new, new_data, combined>>
    /\ UNCHANGED fetchVars

\* GDELT: the fetch returns a frame; it is appended when it is not empty
G_Fetched ==
    /\ pc = "queries" /\ provider = "gdelt" /\ qi <= NumQueries
    /\ \E arts \in SeqsUpTo(FeedArticles, MaxArticles) :
         LET df == GdeltFrame(arts, DEFAULT_QUERIES[qi]) IN
         all_new' = IF df.rows # <<>> THEN Append(all_new, df) ELSE all_new
    /\ qi' = qi + 1
    /\ UNCHANGED <<provider, file, file0, existing, pc, new_data, combined, failed, error>>
    /\ UNCHANGED fetchVars

\* GDELT, after the loop: `if not all_new: return`, else new_data = pd.concat(all_new)
G_LoopExit ==
    /\ pc = "queries" /\ provider = "gdelt" /\ qi > NumQueries
    /\ IF all_new = <<>>
       THEN pc' = "done" /\ UNCHANGED new_data
       ELSE pc' = "merge" /\ new_data' = concat(all_new)
    /\ UNCHANGED <<provider, file, file0, existing, qi, all_new, combined, failed, error>>
    /\ UNCHANGED fetchVars

\* NewsAPI, one pass of `for q in DEFAULT_QUERIES`: call fetch_newsapi_articles
N_CallFetch ==
    /\ pc = "queries" /\ provider = "newsapi" /\ qi <= NumQueries
    /\ pc' = "in_fetch"
    /\ query' = DEFAULT_QUERIES[qi]
    /\ max_pages' = MainMaxPages
    /\ page' = 1
    /\ all_rows' = <<>>
    /\ reqlog' = <<>>
    /\ fpc' = "loop"
    /\ UNCHANGED <<provider, file, file0, existing, qi, all_new, new_data, combined, failed, error>>

\* NewsAPI: the fetch returned, frames.append(df_q)
N_FetchReturned ==
    /\ pc = "in_fetch" /\ fpc = "returned"
    /\ all_new' = Append(all_new, DataFrame(all_rows))
    /\ qi' = qi + 1
    /\ pc' = "queries"
    /\ fpc' = "idle"
    /\ UNCHANGED <<provider, file, file0, existing, new_data, combined, failed, error>>
    /\ UNCHANGED <<query, max_pages, page, all_rows, reqlog>>

\* NewsAPI: the fetch raised; main has no handler, the exception ends the run
N_FetchRaised ==
    /\ pc = "in_fetch" /\ fpc = "raised"
    /\ failed' = failed \cup {qi}
    /\ pc' = "aborted"
    /\ fpc' = "idle"
    /\ UNCHANGED <<provider, file, file0, existing, qi, all_new, new_data, combined, error>>
    /\ UNCHANGED <<query, max_pages, page, all_rows, reqlog>>

\* NewsAPI, after the loop: new_data = pd.concat(frames) if frames else pd.DataFrame()
N_LoopExit ==
    /\ pc = "queries" /\ provider = "newsapi" /\ qi > NumQueries
    /\ new_data' = IF all_new # <<>> THEN concat(all_new) ELSE EmptyFrame
    /\ pc' = "merge"
    /\ UNCHANGED <<provider, file, file0, existing, qi, all_new, combined, failed, error>>
    /\ UNCHANGED fetchVars

\* combined = clean_and_merge(existing, new_data)
Merge ==
    /\ pc = "merge"
    /\ IF provider = "newsapi" /\ merge_newsapi_raises(existing, new_data)
       THEN /\ pc' = "aborted"
            /\ error' = "KeyError"
            /\ UNCHANGED combined
       ELSE /\ combined' = clean_and_merge(provider, existing, new_data)
            /\ pc' = "save"
            /\ UNCHANGED error
    /\ UNCHANGED <<provider, file, file0, existing, qi, all_new, new_data, failed>>
    /\ UNCHANGED fetchVars

\* combined.to_csv(path, index=False)
Save ==
    /\ pc = "save"
    /\ file' = to_csv(combined)
    /\ pc' = "done"
    /\ UNCHANGED <<provider, file0, existing, qi, all_new, new_data, combined, failed, error>>
    /\ UNCHANGED fetchVars

(***************************************************************************)
(* Specifications                                                          *)
(***************************************************************************)
FilesBefore ==
    {AbsentFile, UnparseableFile}
        \cup {[kind |-> "table", rows |-> r] : r \in SeqsUpTo(FileRows, MaxFileRows)}

IdleFetch ==
    /\ query = <<>>
    /\ max_pages = 0
    /\ page = 0
    /\ all_rows = <<>>
    /\ fpc = "idle"
    /\ reqlog = <<>>

\* a run of one of the two scripts
Init ==
    /\ provider \in {"gdelt", "newsapi"}
    /\ file \in FilesBefore
    /\ file0 = file
    /\ existing = EmptyFrame
    /\ pc = "load"
    /\ qi = 1
    /\ all_new = <<>>
    /\ new_data = EmptyFrame
    /\ combined = EmptyFrame
    /\ error = "none"
    /\ failed = {}
    /\ IdleFetch

Next ==
    \/ Load
    \/ G_HTTPError
    \/ G_BadBody
    \/ G_Fetched
    \/ G_LoopExit
    \/ N_CallFetch
    \/ FetchNext
    \/ N_FetchReturned
    \/ N_FetchRaised
    \/ N_LoopExit
    \/ Merge
    \/ Save

Spec == Init /\ [][Next]_vars

\* one call of fetch_newsapi_articles, for every max_pages up to MaxPages
InitFetch ==
    /\ provider = "newsapi"
    /\ file = AbsentFile
    /\ file0 = file
    /\ existing = EmptyFrame
    /\ pc = "fetch_only"
    /\ qi = 1
    /\ all_new = <<>>
    /\ new_data = EmptyFrame
    /\ combined = EmptyFrame
    /\ error = "none"
    /\ failed = {}
    /\ query = DEFAULT_QUERIES[1]
    /\ max_pages \in 0..MaxPages
    /\ page = 1
    /\ all_rows = <<>>
    /\ fpc = "loop"
    /\ reqlog = <<>>

SpecFetch == InitFetch /\ [][FetchNext]_vars

\* the script is sequential and each request has a timeout: a step that can be
\* taken is taken
SpecFetchFair == SpecFetch /\ WF_vars(FetchNext)

\* one call of clean_and_merge, for every pair of frames within the bounds
FramesUpTo(tag, n) ==
    {EmptyFrame} \cup {[cols |-> TRUE, rows |-> r] : r \in SeqsUpTo(MergeRecords(tag), n)}

InitMerge ==
    /\ provider \in {"gdelt", "newsapi"}
    /\ file = AbsentFile
    /\ file0 = file
    /\ existing \in FramesUpTo(<<"o">>, MaxExisting)
    /\ pc = "merge"
    /\ qi = 1
    /\ all_new = <<>>
    /\ new_data \in FramesUpTo(<<"p">>, MaxNew)
    /\ combined = EmptyFrame
    /\ error = "none"
    /\ failed = {}
    /\ IdleFetch

SpecMerge == InitMerge /\ [][Merge]_vars

(***************************************************************************)
(* Properties                                                              *)
(***************************************************************************)
Range(f) == {f[i] : i \in DOMAIN f}

Valid(r) == HasUrl(r) /\ HasTitle(r)

\* what the last step of clean_and_merge makes of a row it keeps
Finalize(p, r) == IF p = "gdelt" THEN FillContent(r) ELSE StripRow(r)

FirstValid(rows, u) ==
    LET idx == {i \in 1..Len(rows) : rows[i].url = u /\ Valid(rows[i])}
    IN rows[CHOOSE i \in idx : \A j \in idx : i <= j]

HasValid(rows, u) == \E i \in 1..Len(rows) : rows[i].url = u /\ Valid(rows[i])

Merged == pc = "save"

\* C1: the dataset clean_and_merge returns has no two records with the same
\* url, the urls taken as they stand in the returned dataset.
C1_Uniqueness ==
    Merged => \A i, j \in 1..Len(combined.rows) :
                  i # j => combined.rows[i].url # combined.rows[j].url

\* C2: every record of the dataset clean_and_merge returns has a url and a
\* title that are present and not the empty string.
C2_Completeness ==
    Merged => \A i \in 1..Len(combined.rows) :
                  /\ combined.rows[i].url \notin {NA, <<>>}
                  /\ combined.rows[i].title \notin {NA, <<>>}

\* C3: a request answered with 429 adds no record and is followed by a request
\* for the same page; the fetch does not end on a rate-limited attempt.
C3_RateLimitRetriesSamePage ==
    \A i \in 1..Len(reqlog) :
        reqlog[i].kind = "429" =>
            /\ reqlog[i].got = 0
            /\ i < Len(reqlog) => reqlog[i + 1].page = reqlog[i].page
            /\ i = Len(reqlog) => fpc = "loop"

\* C4: when the fetch of a query fails the run is not aborted, and at the end
\* every url a valid record of another query carried is in the saved dataset.
C4_FailureIsolation ==
    failed # {} =>
        /\ pc # "aborted"
        /\ pc = "done" =>
             \A r \in Range(ConcatRows(all_new)) :
                 Valid(r) => \E i \in 1..Len(file.rows) :
                                 file.rows[i].url = Finalize(provider, r).url

\* C5: a url with a valid existing record and a new record keeps the existing
\* record and none of the new ones; a url with valid new records and no
\* existing record keeps the first valid new record and no other.
C5_Precedence ==
    Merged => \A u \in UrlValues \ {NA} :
        /\ (HasValid(existing.rows, u) /\ \E n \in Range(new_data.rows) : n.url = u) =>
             /\ Finalize(provider, FirstValid(existing.rows, u)) \in Range(combined.rows)
             /\ \A n \in Range(new_data.rows) :
                    n.url = u => Finalize(provider, n) \notin Range(combined.rows)
        /\ (HasValid(new_data.rows, u) /\ \A e \in Range(existing.rows) : e.url # u) =>
             /\ Finalize(provider, FirstValid(new_data.rows, u)) \in Range(combined.rows)
             /\ \A n \in Range(new_data.rows) :
                    (n.url = u /\ Valid(n) /\ n # FirstValid(new_data.rows, u))
                        => Finalize(provider, n) \notin Range(combined.rows)

\* C6: a run that collected no record ends with the stored file as it was.
C6_NoNewDataKeepsFile ==
    (pc = "done" /\ ConcatRows(all_new) = <<>>) => file = file0

\* C7: when the stored file is absent or does not parse, load_existing
\* returns the empty dataset and raises nothing, and the merge of the empty
\* dataset with valid new records of distinct urls has as many records.
C7_LoadNeverBlocks ==
    (pc # "load" /\ file0.kind # "table") =>
        /\ error # "ParserError"
        /\ existing = EmptyFrame
        /\ (Merged /\ \A i, j \in 1..Len(new_data.rows) :
                         /\ Valid(new_data.rows[i])
                         /\ i # j => new_data.rows[i].url # new_data.rows[j].url)
              => Len(combined.rows) = Len(new_data.rows)

Successful == {i \in 1..Len(reqlog) : reqlog[i].kind \in {"articles", "empty"}}

\* C8: one call of fetch_newsapi_articles gets at most max_pages responses
\* that are not rate-limited, and sends nothing after the first page without
\* articles.
C8_PaginationBound ==
    fpc # "idle" =>
        /\ Cardinality({i \in 1..Len(reqlog) : reqlog[i].kind # "429"}) <= max_pages
        /\ \A i \in 1..Len(reqlog) : reqlog[i].kind = "empty" => i = Len(reqlog)

\* a fetch that got max_pages successful pages, the last of them empty
C8_Witness ==
    /\ fpc = "returned"
    /\ max_pages >= 2
    /\ Cardinality(Successful) = max_pages
    /\ reqlog[Len(reqlog)].kind = "empty"

\* C10: one call of fetch_newsapi_articles sends at most max_pages requests,
\* rate-limited ones included, and then returns or raises.
C10_FetchTerminates ==
    /\ [](fpc # "idle" => Len(reqlog) <= max_pages)
    /\ <>(fpc \in {"returned", "raised"})

\* a fetch whose every request was answered with 429 has returned
C10_Witness ==
    /\ fpc = "returned"
    /\ max_pages >= 2
    /\ Len(reqlog) = max_pages
    /\ \A i \in 1..Len(reqlog) : reqlog[i].kind = "429"

FinalUrl(p, u) == IF p = "gdelt" THEN u ELSE Strip(AsStr(u))

\* C9: every url that some record of the concatenation carries with a url and
\* a title present has exactly one record in the result, the first such
\* record, whatever invalid record with the same url comes before it.
C9_FilterBeforeDedup ==
    Merged =>
        LET rows == existing.rows \o new_data.rows IN
        \A u \in UrlValues \ {NA} :
            HasValid(rows, u) =>
                /\ Finalize(provider, FirstValid(rows, u)) \in Range(combined.rows)
                /\ Cardinality({i \in 1..Len(combined.rows) :
                                   combined.rows[i].url = FinalUrl(provider, u)}) = 1

====
